---- MODULE Spec2Model ----
(***************************************************************************)
(* The questionnaire tracker of backend/src/agent.py: class Assistant with *)
(* its session memory `state`, its step marker `current_step`, the helper  *)
(* extract_number and the handler on_message.                              *)
(*                                                                         *)
(* Python strings are TLA+ strings; a character is a string of length 1.   *)
(* An optional value (Python None or a value v) is the sequence <<>> or    *)
(* <<v>>.                                                                  *)
(***************************************************************************)
EXTENDS Integers, Sequences, FiniteSets, TLC

VARIABLES
    state,          \* self.state: [mood, water, sleep, steps]
    current_step,   \* self.current_step
    inbox,          \* the utterance the host has handed to on_message: <<>> or <<text>>
    sent,           \* the prompts the latest on_message call passed to ctx.send_response
    raised          \* TRUE iff the latest on_message call ended in an exception

vars == <<state, current_step, inbox, sent, raised>>

None == <<>>
Some(v) == <<v>>

\* Strings here are ASCII; "^" stands for U+00B2 SUPERSCRIPT TWO, a character
\* that is a digit (str.isdigit) without being a decimal digit.  No utterance
\* of the model contains a circumflex proper.
SuperscriptTwo == "^"

-----------------------------------------------------------------------------
(* Bounds of the model.                                                    *)

\* Longest utterance built freely from Alphabet.
MaxLen == 2

\* The characters the freely built utterances are made of: a letter, a
\* whitespace character and a decimal digit.
Alphabet == {"a", " ", "7"}

\* Utterances of the spec's scenarios and the edge cases of the string
\* operations (case folding, "feeling" removal, digits that are not decimal).
Phrases ==
    { "I'm feeling great", "about 500ml", "not sure", "200", "300",
      " FEELING ", "feefeelingling", "7 or 7", "007", "5" \o SuperscriptTwo }

RECURSIVE Strs(_)
Strs(n) ==
    IF n = 0 THEN {""}
    ELSE LET shorter == Strs(n - 1)
         IN  shorter \cup {s \o c : s \in shorter, c \in Alphabet}

Utterances == Phrases \cup Strs(MaxLen)

-----------------------------------------------------------------------------
(* Python's str operations, character by character.                        *)

Char(s, i) == SubSeq(s, i, i)

UpperCase == "ABCDEFGHIJKLMNOPQRSTUVWXYZ"
LowerCase == "abcdefghijklmnopqrstuvwxyz"

\* str.lower on one character
LowerChar(c) ==
    IF \E i \in 1..Len(UpperCase) : Char(UpperCase, i) = c
    THEN Char(LowerCase, CHOOSE i \in 1..Len(UpperCase) : Char(UpperCase, i) = c)
    ELSE c

\* str.lower
RECURSIVE Lower(_)
Lower(s) ==
    IF s = "" THEN "" ELSE LowerChar(Head(s)) \o Lower(Tail(s))

\* the characters str.strip removes
IsSpace(c) == c \in {" ", "\t", "\n"}

RECURSIVE LStrip(_)
LStrip(s) ==
    IF s # "" /\ IsSpace(Char(s, 1)) THEN LStrip(SubSeq(s, 2, Len(s))) ELSE s

RECURSIVE RStrip(_)
RStrip(s) ==
    IF s # "" /\ IsSpace(Char(s, Len(s))) THEN RStrip(SubSeq(s, 1, Len(s) - 1)) ELSE s

\* str.strip
Strip(s) == RStrip(LStrip(s))

\* `sub in s`
Contains(s, sub) ==
    \E i \in 1..(Len(s) - Len(sub) + 1) : SubSeq(s, i, i + Len(sub) - 1) = sub

\* str.replace(old, new) for a non-empty old: the non-overlapping occurrences,
\* left to right, in one pass
RECURSIVE Replace(_, _, _)
Replace(s, old, new) ==
    IF Len(s) < Len(old) THEN s
    ELSE IF SubSeq(s, 1, Len(old)) = old
         THEN new \o Replace(SubSeq(s, Len(old) + 1, Len(s)), old, new)
         ELSE Char(s, 1) \o Replace(SubSeq(s, 2, Len(s)), old, new)

\* The decimal digits (Unicode category Nd) and the other characters for
\* which str.isdigit is true.
DecimalDigits == "0123456789"
OtherDigits == SuperscriptTwo

IsDecimal(c) == \E i \in 1..Len(DecimalDigits) : Char(DecimalDigits, i) = c

\* str.isdigit
IsDigit(c) == IsDecimal(c) \/ \E i \in 1..Len(OtherDigits) : Char(OtherDigits, i) = c

\* ''.join(filter(str.isdigit, text))
RECURSIVE FilterDigits(_)
FilterDigits(s) ==
    IF s = "" THEN ""
    ELSE (IF IsDigit(Head(s)) THEN Head(s) ELSE "") \o FilterDigits(Tail(s))

DecimalValue(c) == (CHOOSE i \in 1..Len(DecimalDigits) : Char(DecimalDigits, i) = c) - 1

\* int(digits) for a non-empty string of decimal digits
RECURSIVE IntOf(_)
IntOf(d) ==
    IF d = "" THEN 0
    ELSE IntOf(SubSeq(d, 1, Len(d) - 1)) * Len(DecimalDigits) + DecimalValue(Char(d, Len(d)))

\* int(digits) accepts a string iff each character is a decimal digit;
\* otherwise it raises ValueError
IntAccepts(d) == d # "" /\ \A i \in 1..Len(d) : IsDecimal(Char(d, i))

\* str(n) / f"{n}" for n >= 0
RECURSIVE Str(_)
Str(n) ==
    IF n < Len(DecimalDigits) THEN Char(DecimalDigits, n + 1)
    ELSE Str(n \div Len(DecimalDigits)) \o Char(DecimalDigits, (n % Len(DecimalDigits)) + 1)

-----------------------------------------------------------------------------
(* class Assistant                                                         *)

Steps == <<"mood", "water", "sleep", "steps", "done">>

\* Assistant.__init__
InitState == [mood |-> None, water |-> 0, sleep |-> None, steps |-> 0]
InitStep == "mood"

\* the first run of consecutive decimal digits of s ("" if there is none)
RECURSIVE DropToDecimal(_)
DropToDecimal(s) ==
    IF s = "" \/ IsDecimal(Head(s)) THEN s ELSE DropToDecimal(Tail(s))

RECURSIVE TakeDecimal(_)
TakeDecimal(s) ==
    IF s = "" \/ ~IsDecimal(Head(s)) THEN "" ELSE Head(s) \o TakeDecimal(Tail(s))

FirstRun(s) == TakeDecimal(DropToDecimal(s))

\* extract_number parsing the first run of decimal digits only
extract_number_first_run(text) ==
    LET digits == FirstRun(text)
    IN  IF digits = "" THEN [raised |-> FALSE, value |-> None]
        ELSE [raised |-> FALSE, value |-> Some(IntOf(digits))]

\* Assistant.extract_number: [raised, value]; value is None or Some(number)
extract_number(text) ==
    LET digits == FilterDigits(text)
    IN  IF digits = "" THEN [raised |-> FALSE, value |-> None]
        ELSE IF IntAccepts(digits) THEN [raised |-> FALSE, value |-> Some(IntOf(digits))]
        ELSE [raised |-> TRUE, value |-> None]

\* Assistant.next_question
next_question(step) ==
    CASE step = "mood"  -> "How are you feeling today?"
      [] step = "water" -> "How much water have you had today?"
      [] step = "sleep" -> "How many hours did you sleep last night?"
      [] step = "steps" -> "How many steps have you walked today?"
      [] OTHER          -> "Great job! Let me know if you want to update anything."

\* the outcome of one on_message call
Outcome(st, step, prompts, exc) ==
    [state |-> st, current_step |-> step, sent |-> prompts, raised |-> exc]

\* the mood branch accepting only the two keywords
MoodAccepts_keywords(user_text) ==
    Contains(user_text, "feeling") \/ Contains(user_text, "mood")

\* the condition of the mood branch
MoodAccepts(user_text) ==
    Contains(user_text, "feeling") \/ Contains(user_text, "mood") \/ Strip(user_text) # ""

\* on_message, branch current_step == "mood"
on_message_mood(st, user_text) ==
    IF MoodAccepts(user_text)
    THEN LET mood == Strip(Replace(user_text, "feeling", ""))
         IN  Outcome([st EXCEPT !.mood = Some(mood)], "water",
                     <<"Got it. You're feeling " \o mood \o ". " \o next_question("water")>>,
                     FALSE)
    ELSE Outcome(st, "mood", <<"How are you feeling today?">>, FALSE)

\* the water branch jumping over the sleep question
on_message_water_skip(st, user_text) ==
    LET amount == extract_number(user_text)
    IN  IF amount.raised THEN Outcome(st, "water", <<>>, TRUE)
        ELSE IF amount.value = None
        THEN Outcome(st, "water", <<"How much water did you drink?">>, FALSE)
        ELSE LET water == st.water + amount.value[1]
             IN  Outcome([st EXCEPT !.water = water], "steps",
                         <<"Water updated: " \o Str(water) \o " ml. " \o next_question("steps")>>,
                         FALSE)

\* the water branch recording the amount without moving on
on_message_water_stay(st, user_text) ==
    LET amount == extract_number(user_text)
    IN  IF amount.raised THEN Outcome(st, "water", <<>>, TRUE)
        ELSE IF amount.value = None
        THEN Outcome(st, "water", <<"How much water did you drink?">>, FALSE)
        ELSE LET water == st.water + amount.value[1]
             IN  Outcome([st EXCEPT !.water = water], "water",
                         <<"Water updated: " \o Str(water) \o " ml. " \o next_question("water")>>,
                         FALSE)

\* on_message, branch current_step == "water"
on_message_water(st, user_text) ==
    LET amount == extract_number(user_text)
    IN  IF amount.raised THEN Outcome(st, "water", <<>>, TRUE)
        ELSE IF amount.value = None
        THEN Outcome(st, "water", <<"How much water did you drink?">>, FALSE)
        ELSE LET water == st.water + amount.value[1]
             IN  Outcome([st EXCEPT !.water = water], "sleep",
                         <<"Water updated: " \o Str(water) \o " ml. " \o next_question("sleep")>>,
                         FALSE)

\* the sleep branch adding the hours to the water total
on_message_sleep_to_water(st, user_text) ==
    LET hours == extract_number(user_text)
    IN  IF hours.raised THEN Outcome(st, "sleep", <<>>, TRUE)
        ELSE IF hours.value = None
        THEN Outcome(st, "sleep", <<"How many hours did you sleep?">>, FALSE)
        ELSE Outcome([st EXCEPT !.water = st.water + hours.value[1]], "steps",
                     <<"Noted. You slept " \o Str(hours.value[1]) \o " hours. "
                         \o next_question("steps")>>,
                     FALSE)

\* the sleep branch re-asking with the question of next_question
on_message_sleep_reask(st, user_text) ==
    LET hours == extract_number(user_text)
    IN  IF hours.raised THEN Outcome(st, "sleep", <<>>, TRUE)
        ELSE IF hours.value = None
        THEN Outcome(st, "sleep", <<next_question("sleep")>>, FALSE)
        ELSE Outcome([st EXCEPT !.sleep = hours.value], "steps",
                     <<"Noted. You slept " \o Str(hours.value[1]) \o " hours. "
                         \o next_question("steps")>>,
                     FALSE)

\* the sleep branch adding the hours onto the water total
on_message_sleep_adds(st, user_text) ==
    LET hours == extract_number(user_text)
    IN  IF hours.raised THEN Outcome(st, "sleep", <<>>, TRUE)
        ELSE IF hours.value = None
        THEN Outcome(st, "sleep", <<"How many hours did you sleep?">>, FALSE)
        ELSE Outcome([st EXCEPT !.sleep = Some(st.water + hours.value[1])], "steps",
                     <<"Noted. You slept " \o Str(hours.value[1]) \o " hours. "
                         \o next_question("steps")>>,
                     FALSE)

\* on_message, branch current_step == "sleep"
on_message_sleep(st, user_text) ==
    LET hours == extract_number(user_text)
    IN  IF hours.raised THEN Outcome(st, "sleep", <<>>, TRUE)
        ELSE IF hours.value = None
        THEN Outcome(st, "sleep", <<"How many hours did you sleep?">>, FALSE)
        ELSE Outcome([st EXCEPT !.sleep = hours.value], "steps",
                     <<"Noted. You slept " \o Str(hours.value[1]) \o " hours. "
                         \o next_question("steps")>>,
                     FALSE)

\* the steps branch subtracting instead of adding
on_message_steps_minus(st, user_text) ==
    LET steps == extract_number(user_text)
    IN  IF steps.raised THEN Outcome(st, "steps", <<>>, TRUE)
        ELSE IF steps.value = None
        THEN Outcome(st, "steps", <<"How many steps did you walk?">>, FALSE)
        ELSE LET total == st.steps - steps.value[1]
             IN  Outcome([st EXCEPT !.steps = total], "done",
                         <<"Steps updated. Great job today!">>,
                         FALSE)

\* the steps branch adding the steps without closing the questionnaire
on_message_steps_stay(st, user_text) ==
    LET steps == extract_number(user_text)
    IN  IF steps.raised THEN Outcome(st, "steps", <<>>, TRUE)
        ELSE IF steps.value = None
        THEN Outcome(st, "steps", <<"How many steps did you walk?">>, FALSE)
        ELSE LET total == st.steps + steps.value[1]
             IN  Outcome([st EXCEPT !.steps = total], "steps",
                         <<"Steps updated: " \o Str(total) \o ". Great job today!">>,
                         FALSE)

\* on_message, branch current_step == "steps"
on_message_steps(st, user_text) ==
    LET steps == extract_number(user_text)
    IN  IF steps.raised THEN Outcome(st, "steps", <<>>, TRUE)
        ELSE IF steps.value = None
        THEN Outcome(st, "steps", <<"How many steps did you walk?">>, FALSE)
        ELSE LET total == st.steps + steps.value[1]
             IN  Outcome([st EXCEPT !.steps = total], "done",
                         <<"Steps updated: " \o Str(total) \o ". Great job today!">>,
                         FALSE)

\* the closing branch answering with the text of next_question
on_message_done_question(st, user_text) ==
    Outcome(st, "done", <<next_question("done")>>, FALSE)

\* on_message, after all steps complete
on_message_done(st, user_text) ==
    Outcome(st, "done", <<"You're all set! Tell me if you want to update anything.">>, FALSE)

\* Assistant.on_message
on_message(st, step, text) ==
    LET user_text == Lower(text)
    IN  CASE step = "mood"  -> on_message_mood(st, user_text)
          [] step = "water" -> on_message_water(st, user_text)
          [] step = "sleep" -> on_message_sleep(st, user_text)
          [] step = "steps" -> on_message_steps(st, user_text)
          [] OTHER          -> on_message_done(st, user_text)

-----------------------------------------------------------------------------
(* The session: the host hands over one utterance at a time, and           *)
(* on_message handles it to completion.                                    *)

Init ==
    /\ state = InitState
    /\ current_step = InitStep
    /\ inbox = None
    /\ sent = <<>>
    /\ raised = FALSE

\* the host delivers the next transcribed utterance
Deliver ==
    /\ inbox = None
    /\ \E text \in Utterances : inbox' = Some(text)
    /\ UNCHANGED <<state, current_step, sent, raised>>

\* one on_message call, from entry to return (or to the exception)
OnMessage ==
    /\ inbox # None
    /\ LET r == on_message(state, current_step, inbox[1])
       IN  /\ state' = r.state
           /\ current_step' = r.current_step
           /\ sent' = r.sent
           /\ raised' = r.raised
    /\ inbox' = None

Next == Deliver \/ OnMessage

Spec == Init /\ [][Next]_vars

-----------------------------------------------------------------------------
(* Several sessions: entrypoint builds one Assistant per job, and the host *)
(* serves the sessions in any interleaving.  The variables then hold one   *)
(* value per started session: state[s], current_step[s], inbox[s], sent[s] *)
(* and raised[s].                                                          *)

\* Number of jobs the worker runs.
NumSessions == 2

Sessions == 1..NumSessions

\* What the users of these sessions say: a blank utterance, one without and
\* one with a digit.
SessionUtterances == {" ", "ok", "7"}

\* no job has started
InitSessions ==
    /\ state = <<>>
    /\ current_step = <<>>
    /\ inbox = <<>>
    /\ sent = <<>>
    /\ raised = <<>>

\* entrypoint: session.start(agent=Assistant())
Entrypoint(s) ==
    /\ s \notin DOMAIN state
    /\ state' = state @@ (s :> InitState)
    /\ current_step' = current_step @@ (s :> InitStep)
    /\ inbox' = inbox @@ (s :> None)
    /\ sent' = sent @@ (s :> <<>>)
    /\ raised' = raised @@ (s :> FALSE)

\* the host delivers the next utterance of session s
DeliverTo(s) ==
    /\ s \in DOMAIN state
    /\ inbox[s] = None
    /\ \E text \in SessionUtterances : inbox' = [inbox EXCEPT ![s] = Some(text)]
    /\ UNCHANGED <<state, current_step, sent, raised>>

\* on_message with the record kept in one dict that all instances share
OnMessageOf_shared(s) ==
    /\ s \in DOMAIN state
    /\ inbox[s] # None
    /\ LET r == on_message(state[s], current_step[s], inbox[s][1])
       IN  /\ state' = [t \in DOMAIN state |-> r.state]
           /\ current_step' = [current_step EXCEPT ![s] = r.current_step]
           /\ sent' = [sent EXCEPT ![s] = r.sent]
           /\ raised' = [raised EXCEPT ![s] = r.raised]
    /\ inbox' = [inbox EXCEPT ![s] = None]

\* one on_message call of the Assistant of session s; self.state and
\* self.current_step are attributes of that instance
OnMessageOf(s) ==
    /\ s \in DOMAIN state
    /\ inbox[s] # None
    /\ LET r == on_message(state[s], current_step[s], inbox[s][1])
       IN  /\ state' = [state EXCEPT ![s] = r.state]
           /\ current_step' = [current_step EXCEPT ![s] = r.current_step]
           /\ sent' = [sent EXCEPT ![s] = r.sent]
           /\ raised' = [raised EXCEPT ![s] = r.raised]
    /\ inbox' = [inbox EXCEPT ![s] = None]

NextSessions == \E s \in Sessions : Entrypoint(s) \/ DeliverTo(s) \/ OnMessageOf(s)

SpecSessions == InitSessions /\ [][NextSessions]_vars

-----------------------------------------------------------------------------
(* Vocabulary of the properties.                                           *)

\* position of a step in mood, water, sleep, steps, done
StepIndex(step) == CHOOSE i \in 1..Len(Steps) : Steps[i] = step

\* an on_message call is about to handle inbox[1] in the given step
Handling(step) == current_step = step /\ inbox # None

NumericSteps == {"water", "sleep", "steps"}

HasDigit(text) == \E i \in 1..Len(text) : IsDigit(Char(text, i))

AllDigitsDecimal(text) ==
    \A i \in 1..Len(text) : IsDigit(Char(text, i)) => IsDecimal(Char(text, i))

\* the numeric value of a digit character: 0..9 for a decimal digit, and the
\* digit a superscript shows
DigitValueOf(c) ==
    IF IsDecimal(c) THEN DecimalValue(c)
    ELSE CASE c = SuperscriptTwo -> 2

\* the integer formed by the digit characters of text, in their order, all
\* other characters discarded
RECURSIVE DigitsNumber(_, _)
DigitsNumber(text, acc) ==
    IF text = "" THEN acc
    ELSE IF IsDigit(Head(text))
         THEN DigitsNumber(Tail(text), acc * 10 + DigitValueOf(Head(text)))
         ELSE DigitsNumber(Tail(text), acc)

\* no character other than whitespace
IsBlank(text) == \A i \in 1..Len(text) : IsSpace(Char(text, i))

\* the value a numeric step has recorded, read from the record
Recorded(st, step) ==
    CASE step = "water" -> Some(st.water)
      [] step = "sleep" -> st.sleep
      [] step = "steps" -> Some(st.steps)

ReAsk(step) ==
    CASE step = "water" -> "How much water did you drink?"
      [] step = "sleep" -> "How many hours did you sleep?"
      [] step = "steps" -> "How many steps did you walk?"

ClosingText == "You're all set! Tell me if you want to update anything."

-----------------------------------------------------------------------------
(* Properties.                                                             *)

\* C1: every on_message call leaves current_step unchanged or moves it to the
\* immediate successor in mood, water, sleep, steps, done; it never regresses
\* and never skips a step.
C1_StepOrder ==
    [][StepIndex(current_step') - StepIndex(current_step) \in {0, 1}]_vars

\* a session that went through all four questions
C1_Witness ==
    /\ current_step = "done"
    /\ state.mood # None /\ state.sleep # None
    /\ inbox = None

\* C2: once current_step is done, every further on_message call leaves the
\* four record fields and current_step unchanged and sends the same closing
\* text.
C2_DoneSelfLoop ==
    [][Handling("done") =>
        /\ state' = state
        /\ current_step' = "done"
        /\ sent' = <<ClosingText>>
        /\ raised' = FALSE]_vars

\* a call handled in done has answered
C2_Witness == current_step = "done" /\ sent = <<ClosingText>> /\ inbox = None

\* C3: in water, sleep and steps, an utterance with a digit character yields
\* the integer formed by all its digit characters in order and advances the
\* step; an utterance without one yields no value and does not advance.
C3_DigitsExtracted ==
    [][\A step \in NumericSteps : Handling(step) =>
        IF HasDigit(inbox[1])
        THEN /\ extract_number(Lower(inbox[1])) =
                    [raised |-> FALSE, value |-> Some(DigitsNumber(inbox[1], 0))]
             /\ StepIndex(current_step') = StepIndex(step) + 1
        ELSE /\ extract_number(Lower(inbox[1])) = [raised |-> FALSE, value |-> None]
             /\ current_step' = step]_vars

\* C4: on_message is total; no call ends in an error.
C4_Total == raised = FALSE

\* C5 as stated: from water with total 0, "200" and then "300" give a water
\* total of 500.  The first call is recognised by the prompt it sent.
C5_Accumulated ==
    [][(/\ sent = <<"Water updated: 200 ml. How many hours did you sleep last night?">>
        /\ inbox = Some("300"))
       => state'.water = 500]_vars

\* C5 amended: from water with total 0, "200" and then "300" give a water
\* total of 200, a sleep value of 300 and current_step steps.
C5_Routed ==
    [][(/\ sent = <<"Water updated: 200 ml. How many hours did you sleep last night?">>
        /\ inbox = Some("300"))
       => /\ state'.water = 200
          /\ state'.sleep = Some(300)
          /\ current_step' = "steps"]_vars

\* "200" then "300" have been handled
C5_Witness ==
    /\ state.water = 200
    /\ state.sleep = Some(300)
    /\ sent = <<"Noted. You slept 300 hours. How many steps have you walked today?">>

\* C6: the water total and the steps total start at 0 and no call makes
\* either smaller.
C6_Monotone ==
    /\ state.water = 0 /\ state.steps = 0
    /\ [][state'.water >= state.water /\ state'.steps >= state.steps]_vars

\* both totals have grown
C6_Witness == state.water > 0 /\ state.steps > 0

\* C7: in mood, "I'm feeling great" sets mood to "great" (or "i'm great"),
\* advances to water and sends "Got it. You're feeling great. How much water
\* have you had today?".
C7_FeelingGreat ==
    [][(Handling("mood") /\ inbox = Some("I'm feeling great")) =>
        /\ state'.mood \in {Some("great"), Some("i'm great")}
        /\ current_step' = "water"
        /\ sent' = <<"Got it. You're feeling great. How much water have you had today?">>]_vars

\* C8: in mood, an utterance advances to water iff it is not blank; a blank
\* one leaves the step and the record unchanged and re-prompts with the mood
\* question.
C8_MoodBlank ==
    [][Handling("mood") =>
        IF IsBlank(inbox[1])
        THEN /\ current_step' = "mood"
             /\ state' = state
             /\ sent' = <<"How are you feeling today?">>
        ELSE current_step' = "water"]_vars

\* a blank utterance has been answered by the mood question
C8_Witness == current_step = "mood" /\ sent = <<"How are you feeling today?">>

\* C9: in water, sleep and steps, an utterance without a digit character
\* leaves the step and the record unchanged and is answered by the re-ask
\* question of that step.
C9_ReAsk ==
    [][\A step \in NumericSteps : (Handling(step) /\ ~HasDigit(inbox[1])) =>
        /\ current_step' = step
        /\ state' = state
        /\ sent' = <<ReAsk(step)>>
        /\ (step = "sleep" => sent' = <<"How many hours did you sleep?">>)]_vars

\* a digit-free utterance has been answered in sleep
C9_Witness == current_step = "sleep" /\ sent = <<"How many hours did you sleep?">>

\* C10: in water, an utterance from which the number n is extracted sets the
\* water total to the previous total plus n, advances to sleep and sends
\* "Water updated: <new total> ml." followed by the sleep question.
C10_WaterUpdated ==
    [][(Handling("water") /\ HasDigit(inbox[1]) /\ AllDigitsDecimal(inbox[1])) =>
        LET n == DigitsNumber(inbox[1], 0)
        IN  /\ state'.water = state.water + n
            /\ current_step' = "sleep"
            /\ sent' = <<"Water updated: " \o Str(state.water + n) \o " ml. "
                          \o "How many hours did you sleep last night?">>
            /\ (inbox = Some("about 500ml") /\ state.water = 0 =>
                    /\ state'.water = 500
                    /\ sent' = <<"Water updated: 500 ml. How many hours did you sleep last night?">>)]_vars

\* "about 500ml" has been handled in water
C10_Witness ==
    /\ current_step = "sleep"
    /\ state.water = 500
    /\ sent = <<"Water updated: 500 ml. How many hours did you sleep last night?">>

\* the fields of the record; each is named as the step that asks for it
Fields == {"mood", "water", "sleep", "steps"}

\* C11: an on_message call writes at most the record field of the step it
\* starts in (none in done); every other field is left unchanged.
C11_OnlyOwnField ==
    [][\A f \in Fields : f # current_step => state'[f] = state[f]]_vars

\* mood and water have been written, sleep and steps not yet
C11_Witness ==
    /\ current_step = "sleep"
    /\ state.mood # None /\ state.water > 0
    /\ state.sleep = None /\ state.steps = 0

\* C12: every on_message call, on the success and on the re-ask path, sends
\* exactly one prompt.
C12_OnePrompt ==
    [][inbox # None => Len(sent') = 1]_vars

\* C13: an on_message call on one Assistant never changes the record or the
\* step of another one, and every new Assistant starts at step mood with
\* mood unset, water 0, sleep unset and steps 0.
C13_Independent ==
    /\ [][\A s \in DOMAIN state : \A t \in DOMAIN state \ {s} :
            (inbox[s] # None /\ inbox'[s] = None) =>
                (state'[t] = state[t] /\ current_step'[t] = current_step[t])]_vars
    /\ [][\A s \in DOMAIN state' \ DOMAIN state :
            /\ state'[s] = [mood |-> <<>>, water |-> 0, sleep |-> <<>>, steps |-> 0]
            /\ current_step'[s] = "mood"]_vars

\* two sessions that have heard different things stand at different steps
\* with different records
C13_Witness ==
    \E s \in DOMAIN state : \E t \in DOMAIN state :
        /\ current_step[s] = "done" /\ state[s].mood = <<"ok">>
        /\ current_step[t] = "water" /\ state[t].mood = <<"7">>

\* C14: the record is consistent with current_step: mood is unset exactly
\* while current_step is mood; sleep is unset exactly while current_step is
\* mood, water or sleep; the water total is 0 while current_step is mood or
\* water; the steps total is 0 while current_step is not done.
C14_RecordMatchesStep ==
    /\ (state.mood = None) <=> (current_step = "mood")
    /\ (state.sleep = None) <=> (current_step \in {"mood", "water", "sleep"})
    /\ (current_step \in {"mood", "water"}) => (state.water = 0)
    /\ (current_step # "done") => (state.steps = 0)

\* the steps question is pending: mood, water and sleep are recorded, steps
\* is not
C14_Witness ==
    /\ current_step = "steps"
    /\ state.mood # None /\ state.water > 0 /\ state.sleep # None
    /\ state.steps = 0

\* C15: the sleep field holds the number parsed from the latest utterance
\* handled for sleep: the call that extracts a number in state sleep stores
\* exactly that number, whatever the field held, and no later call changes
\* it.
C15_SleepLatest ==
    /\ [][(Handling("sleep") /\ HasDigit(inbox[1]) /\ AllDigitsDecimal(inbox[1])) =>
            state'.sleep = Some(DigitsNumber(inbox[1], 0))]_vars
    /\ [][(state.sleep # None) => (state'.sleep = state.sleep)]_vars

\* "7 or 7" has been handled for sleep after a different water amount
C15_Witness ==
    /\ state.sleep = Some(77)
    /\ state.water = 200
    /\ sent = <<"Noted. You slept 77 hours. How many steps have you walked today?">>

-----------------------------------------------------------------------------
(* Progress of a session.  Whether a step advances depends on the kind of  *)
(* characters in the utterance, not on its length, so the utterances here  *)
(* are the empty one, the single characters of Alphabet and one with a     *)
(* digit that is not decimal.                                              *)

LiveUtterances == Alphabet \cup {"", "5" \o SuperscriptTwo}

\* an utterance the step can use: not blank in mood, with a digit character
\* in water, sleep and steps
Usable(step, text) ==
    IF step = "mood" THEN ~IsBlank(text) ELSE HasDigit(text)

\* the host delivers an utterance that the pending question can use
DeliverUsable ==
    /\ inbox = None
    /\ current_step # "done"
    /\ \E text \in LiveUtterances : Usable(current_step, text) /\ inbox' = Some(text)
    /\ UNCHANGED <<state, current_step, sent, raised>>

\* the host delivers any other utterance
DeliverOther ==
    /\ inbox = None
    /\ \E text \in LiveUtterances :
          (current_step = "done" \/ ~Usable(current_step, text)) /\ inbox' = Some(text)
    /\ UNCHANGED <<state, current_step, sent, raised>>

NextLive == DeliverUsable \/ DeliverOther \/ OnMessage

\* Every delivered utterance is handled, and in each step a usable utterance
\* is delivered again and again for as long as the session waits there.
LiveSpec ==
    Init /\ [][NextLive]_vars /\ WF_vars(OnMessage) /\ SF_vars(DeliverUsable)

\* C16: when the host keeps delivering and eventually delivers a usable
\* utterance in each step, the session eventually reaches done.
C16_ReachesDone == <>(current_step = "done")

-----------------------------------------------------------------------------

\* the number a call in a numeric step has put to use: the amount added to
\* the water or steps total, or the value stored as sleep
ValueUsed(step, before, after) ==
    CASE step = "water" -> after.water - before.water
      [] step = "sleep" -> after.sleep[1]
      [] step = "steps" -> after.steps - before.steps

\* C17 as stated: the value used in water, sleep and steps is the integer
\* parsed from the first run of consecutive decimal digits of the utterance.
C17_FirstRun ==
    [][\A step \in NumericSteps : (Handling(step) /\ current_step' # step) =>
        ValueUsed(step, state, state') = IntOf(FirstRun(inbox[1]))]_vars

\* C17 amended: the value used is the integer formed by all the digit
\* characters of the utterance, in their order; every run contributes.
C17_AllRuns ==
    [][\A step \in NumericSteps : (Handling(step) /\ current_step' # step) =>
        /\ ValueUsed(step, state, state') = DigitsNumber(inbox[1], 0)
        /\ (inbox = Some("7 or 7") => ValueUsed(step, state, state') = 77)]_vars

\* "7 or 7", two separated runs, has been used as the water amount
C17_Witness ==
    /\ current_step = "sleep"
    /\ state.water = 77
    /\ sent = <<"Water updated: 77 ml. How many hours did you sleep last night?">>
    /\ state.mood = Some("i'm  great")

\* C18: whenever the mood step advances to water, the stored mood label is a
\* non-empty string, namely the accepted utterance (case folded) with the
\* substring "feeling" removed and the surrounding whitespace trimmed, and
\* the prompt embeds that same label.
C18_MoodLabel ==
    [][(Handling("mood") /\ current_step' = "water") =>
        LET label == Strip(Replace(Lower(inbox[1]), "feeling", ""))
        IN  /\ label # ""
            /\ state'.mood = Some(label)
            /\ sent' = <<"Got it. You're feeling " \o label
                           \o ". How much water have you had today?">>]_vars

\* C19: the water total and the steps total are each written at most once,
\* in the call that leaves their step; so the water total is exactly the
\* number extracted from the utterance that left water, the steps total
\* exactly the number extracted from the utterance that left steps, and both
\* keep that value in done.
C19_WrittenOnce ==
    [][/\ (state'.water # state.water) => (current_step = "water" /\ current_step' = "sleep")
       /\ (state'.steps # state.steps) => (current_step = "steps" /\ current_step' = "done")
       /\ (Handling("water") /\ current_step' = "sleep") =>
              state'.water = DigitsNumber(inbox[1], 0)
       /\ (Handling("steps") /\ current_step' = "done") =>
              /\ state'.steps = DigitsNumber(inbox[1], 0)
              /\ sent' = <<"Steps updated: " \o Str(DigitsNumber(inbox[1], 0))
                             \o ". Great job today!">>
       /\ (current_step \in {"sleep", "steps", "done"}) => (state'.water = state.water)
       /\ (current_step = "done") => (state'.steps = state.steps)]_vars

\* a finished session whose totals are the two numbers it was told
C19_Witness ==
    /\ current_step = "done"
    /\ state.water = 500
    /\ state.steps = 77
    /\ sent = <<"Steps updated: 77. Great job today!">>

====
